---- MODULE Spec2Model ----
(***************************************************************************)
(* Model of track_fish.py: main() as a sequential state machine.           *)
(* The external library (video capture, writer, contour finder, windows)   *)
(* is the environment: whether the source opens, whether a read succeeds,  *)
(* which contours a frame has and which key waitKey returns are chosen     *)
(* nondeterministically.                                                   *)
(***************************************************************************)
EXTENDS Integers, Sequences, FiniteSets, TLC

\* ---- bounds of the model ----
MaxFrames == 2      \* frames the source delivers at most before the model stops reading
MaxContours == 2    \* contours per frame
MaxArea2 == 4       \* largest contour area, in half pixels

\* ---- program constants ----
ord_q == 113        \* ord('q')
ord_Q == 81         \* ord('Q')
ByteMask == 256     \* & 0xFF keeps the value modulo 256
ExitFailure == 1    \* sys.exit(1); also the status of an uncaught exception

\* ---- inputs ----
\* A string is a sequence of characters.  "ar3" is U+0663 (a decimal digit
\* with value 3), "sup2" is U+00B2 (a digit that is not a decimal).
Videos == { <<"0">>, <<"1", "2">>, <<"ar3">>, <<"sup2">>, <<"-", "1">>, <<"a">>, << >> }
Outs == {"fish_tracked.mp4"}
MinAreas == {1, 2}
Keys == {-1, ord_q, ord_Q, 97, 1048689}
Areas2 == 1..MaxArea2
ContourLists == UNION { [1..n -> Areas2] : n \in 0..MaxContours }

NoCap == [kind |-> "none"]
Unset == -1
NoKey == -2

VARIABLES pc, args, cap, openCalls, writer, capReleases, outReleases,
          fish_count, frame_num, contours, idx, boxes, labels, written,
          reads, readCalls, shown, destroyed, key, exitReason, stdout,
          stderr, exit_status

vars == <<pc, args, cap, openCalls, writer, capReleases, outReleases,
          fish_count, frame_num, contours, idx, boxes, labels, written,
          reads, readCalls, shown, destroyed, key, exitReason, stdout,
          stderr, exit_status>>

\* ---- pure functions ----
\* str.isdigit(): non-empty and every character has the Digit property.
IsDigitChar(c) == c \in {"0", "1", "2", "ar3", "sup2"}

\* characters int() accepts as digits (Unicode decimals), with their value
IsDecimalChar(c) == c \in {"0", "1", "2", "ar3"}

DigitVal(c) == CASE c = "0" -> 0 [] c = "1" -> 1 [] c = "2" -> 2 [] c = "ar3" -> 3 [] OTHER -> 0

isdigit(s) == Len(s) > 0 /\ \A i \in 1..Len(s) : IsDigitChar(s[i])

RECURSIVE DecimalValue(_)
DecimalValue(s) == IF s = << >> THEN 0
                   ELSE 10 * DecimalValue(SubSeq(s, 1, Len(s) - 1)) + DigitVal(s[Len(s)])

\* int(s) for a string of digits: the value, or ValueError when a character
\* is not a decimal.
int(s) == IF Len(s) > 0 /\ \A i \in 1..Len(s) : IsDecimalChar(s[i])
          THEN [ok |-> TRUE, val |-> DecimalValue(s)]
          ELSE [ok |-> FALSE, val |-> 0]

\* waitKey(30) & 0xFF in [ord('q'), ord('Q')]
IsQuitKey(k) == (k % ByteMask) \in {ord_q, ord_Q}

IsFishMutStrict(area2, min_area) == area2 > 2 * min_area

\* line 68, negated: the contour is kept unless area < min_area.
\* area2 is the area in half pixels (contourArea returns multiples of 0.5).
IsFish(area2, min_area) == ~(area2 < 2 * min_area)

ErrorMsg(v) == <<"ERROR: Cannot open video source:", v>>
StartMsg == <<"Tracking fish... press [Q] to stop.">>
DoneMsg(o) == <<"Tracking finished - saved output video to:", o>>

\* ---- initial state: parse_args() has returned ----
Init ==
    /\ pc = "select"
    /\ args \in [video : Videos, out : Outs, min_area : MinAreas, debug : BOOLEAN]
    /\ cap = NoCap
    /\ openCalls = << >>
    /\ writer = "none"
    /\ capReleases = 0
    /\ outReleases = 0
    /\ fish_count = Unset
    /\ frame_num = Unset
    /\ contours = << >>
    /\ idx = 0
    /\ boxes = << >>
    /\ labels = << >>
    /\ written = << >>
    /\ reads = 0
    /\ readCalls = 0
    /\ shown = 0
    /\ destroyed = 0
    /\ key = NoKey
    /\ exitReason = "none"
    /\ stdout = << >>
    /\ stderr = << >>
    /\ exit_status = Unset

\* ---- lines 24-27: choose and open the source ----
SelectSource ==
    /\ pc = "select"
    /\ IF isdigit(args.video)
       THEN IF int(args.video).ok
            THEN \E ok \in BOOLEAN :
                   /\ cap' = [kind |-> "camera", arg |-> int(args.video).val, opened |-> ok]
                   /\ openCalls' = Append(openCalls, [kind |-> "camera", arg |-> int(args.video).val])
                   /\ pc' = "check"
                   /\ UNCHANGED <<stderr, exit_status>>
            ELSE /\ pc' = "fault"
                 /\ stderr' = Append(stderr, "ValueError")
                 /\ exit_status' = ExitFailure
                 /\ UNCHANGED <<cap, openCalls>>
       ELSE \E ok \in BOOLEAN :
              /\ cap' = [kind |-> "file", arg |-> args.video, opened |-> ok]
              /\ openCalls' = Append(openCalls, [kind |-> "file", arg |-> args.video])
              /\ pc' = "check"
              /\ UNCHANGED <<stderr, exit_status>>
    /\ UNCHANGED <<args, writer, capReleases, outReleases, fish_count, frame_num,
                   contours, idx, boxes, labels, written, reads, readCalls, shown,
                   destroyed, key, exitReason, stdout>>

OpenFailedMutFallThrough ==
    /\ pc = "check"
    /\ ~cap.opened
    /\ stdout' = Append(stdout, ErrorMsg(args.video))
    /\ writer' = "open"
    /\ fish_count' = 0
    /\ frame_num' = 0
    /\ pc' = "read"
    /\ UNCHANGED <<args, cap, openCalls, capReleases, outReleases, exit_status,
                   contours, idx, boxes, labels, written, reads, readCalls, shown,
                   destroyed, key, exitReason, stderr>>

\* ---- lines 29-31: the source did not open ----
OpenFailed ==
    /\ pc = "check"
    /\ ~cap.opened
    /\ stdout' = Append(stdout, ErrorMsg(args.video))
    /\ exit_status' = ExitFailure
    /\ pc' = "exited"
    /\ UNCHANGED <<args, cap, openCalls, writer, capReleases, outReleases, fish_count,
                   frame_num, contours, idx, boxes, labels, written, reads, readCalls,
                   shown, destroyed, key, exitReason, stderr>>

\* ---- lines 29-45: subtractor, writer, counters, start message ----
Setup ==
    /\ pc = "check"
    /\ cap.opened
    /\ writer' = "open"
    /\ fish_count' = 0
    /\ frame_num' = 0
    /\ stdout' = Append(stdout, StartMsg)
    /\ pc' = "read"
    /\ UNCHANGED <<args, cap, openCalls, capReleases, outReleases, contours, idx,
                   boxes, labels, written, reads, readCalls, shown, destroyed, key,
                   exitReason, stderr, exit_status>>

ReadOkMutNoIncrement ==
    /\ pc = "read"
    /\ reads < MaxFrames
    /\ \E cs \in ContourLists : contours' = cs
    /\ reads' = reads + 1
    /\ readCalls' = readCalls + 1
    /\ frame_num' = frame_num
    /\ fish_count' = 0
    /\ idx' = 1
    /\ boxes' = << >>
    /\ labels' = << >>
    /\ pc' = "contour"
    /\ UNCHANGED <<args, cap, openCalls, writer, capReleases, outReleases, written,
                   shown, destroyed, key, exitReason, stdout, stderr, exit_status>>

ReadOkMutNoReset ==
    /\ pc = "read"
    /\ reads < MaxFrames
    /\ \E cs \in ContourLists : contours' = cs
    /\ reads' = reads + 1
    /\ readCalls' = readCalls + 1
    /\ frame_num' = frame_num + 1
    /\ fish_count' = fish_count
    /\ idx' = 1
    /\ boxes' = << >>
    /\ labels' = << >>
    /\ pc' = "contour"
    /\ UNCHANGED <<args, cap, openCalls, writer, capReleases, outReleases, written,
                   shown, destroyed, key, exitReason, stdout, stderr, exit_status>>

\* ---- lines 48-64: a successful read; mask and contours; count reset ----
ReadOk ==
    /\ pc = "read"
    /\ reads < MaxFrames
    /\ \E cs \in ContourLists : contours' = cs
    /\ reads' = reads + 1
    /\ readCalls' = readCalls + 1
    /\ frame_num' = frame_num + 1
    /\ fish_count' = 0
    /\ idx' = 1
    /\ boxes' = << >>
    /\ labels' = << >>
    /\ pc' = "contour"
    /\ UNCHANGED <<args, cap, openCalls, writer, capReleases, outReleases, written,
                   shown, destroyed, key, exitReason, stdout, stderr, exit_status>>

ReadFailMutContinue ==
    /\ pc = "read"
    /\ readCalls < MaxFrames + 1
    /\ readCalls' = readCalls + 1
    /\ exitReason' = "eof"
    /\ pc' = "read"
    /\ UNCHANGED <<args, cap, openCalls, writer, capReleases, outReleases, fish_count,
                   frame_num, contours, idx, boxes, labels, written, reads, shown,
                   destroyed, key, stdout, stderr, exit_status>>

\* ---- lines 48-50: a failed read ends the loop ----
ReadFail ==
    /\ pc = "read"
    /\ readCalls' = readCalls + 1
    /\ exitReason' = "eof"
    /\ pc' = "release_cap"
    /\ UNCHANGED <<args, cap, openCalls, writer, capReleases, outReleases, fish_count,
                   frame_num, contours, idx, boxes, labels, written, reads, shown,
                   destroyed, key, stdout, stderr, exit_status>>

\* ---- lines 66-74: one iteration of the contour loop ----
ContourStep ==
    /\ pc = "contour"
    /\ idx <= Len(contours)
    /\ IF IsFish(contours[idx], args.min_area)
       THEN /\ fish_count' = fish_count + 1
            /\ boxes' = Append(boxes, idx)
            /\ labels' = Append(labels, fish_count + 1)
       ELSE UNCHANGED <<fish_count, boxes, labels>>
    /\ idx' = idx + 1
    /\ UNCHANGED <<pc, args, cap, openCalls, writer, capReleases, outReleases,
                   frame_num, contours, written, reads, readCalls, shown, destroyed,
                   key, exitReason, stdout, stderr, exit_status>>

WriteFrameMutQuitFirst ==
    /\ pc = "contour"
    /\ idx > Len(contours)
    /\ IF args.debug
       THEN /\ pc' = "key"
            /\ UNCHANGED written
       ELSE /\ pc' = "read"
            /\ written' = Append(written, [src |-> reads, frameText |-> frame_num,
                                           countText |-> fish_count, boxes |-> boxes,
                                           labels |-> labels, contours |-> contours])
    /\ UNCHANGED <<args, cap, openCalls, writer, capReleases, outReleases, fish_count,
                   frame_num, contours, idx, boxes, labels, reads, readCalls, shown,
                   destroyed, key, exitReason, stdout, stderr, exit_status>>

WriteFrameMutTwice ==
    /\ pc = "contour"
    /\ idx > Len(contours)
    /\ LET f == [src |-> reads, frameText |-> frame_num, countText |-> fish_count,
                 boxes |-> boxes, labels |-> labels, contours |-> contours]
       IN written' = IF Len(contours) = 0 THEN written \o <<f, f>> ELSE Append(written, f)
    /\ pc' = IF args.debug THEN "key" ELSE "read"
    /\ UNCHANGED <<args, cap, openCalls, writer, capReleases, outReleases, fish_count,
                   frame_num, contours, idx, boxes, labels, reads, readCalls, shown,
                   destroyed, key, exitReason, stdout, stderr, exit_status>>

\* ---- lines 77-80: overlay texts and out.write(frame) ----
WriteFrame ==
    /\ pc = "contour"
    /\ idx > Len(contours)
    /\ written' = Append(written, [src |-> reads, frameText |-> frame_num,
                                   countText |-> fish_count, boxes |-> boxes,
                                   labels |-> labels, contours |-> contours])
    /\ pc' = IF args.debug THEN "key" ELSE "read"
    /\ UNCHANGED <<args, cap, openCalls, writer, capReleases, outReleases, fish_count,
                   frame_num, contours, idx, boxes, labels, reads, readCalls, shown,
                   destroyed, key, exitReason, stdout, stderr, exit_status>>

\* ---- lines 82-86: preview windows and the key check ----
DebugShow ==
    /\ pc = "key"
    /\ shown' = shown + 1
    /\ \E k \in Keys :
         /\ key' = k
         /\ IF IsQuitKey(k)
            THEN /\ exitReason' = "quit"
                 /\ pc' = "release_cap"
            ELSE /\ pc' = "read"
                 /\ UNCHANGED exitReason
    /\ UNCHANGED <<args, cap, openCalls, writer, capReleases, outReleases, fish_count,
                   frame_num, contours, idx, boxes, labels, written, reads, readCalls,
                   destroyed, stdout, stderr, exit_status>>

\* ---- line 88: cap.release() ----
ReleaseCap ==
    /\ pc = "release_cap"
    /\ capReleases' = capReleases + 1
    /\ pc' = "release_out"
    /\ UNCHANGED <<args, cap, openCalls, writer, outReleases, fish_count, frame_num,
                   contours, idx, boxes, labels, written, reads, readCalls, shown,
                   destroyed, key, exitReason, stdout, stderr, exit_status>>

ReleaseOutMutSkip ==
    /\ pc = "release_out"
    /\ pc' = IF args.debug THEN "destroy" ELSE "finish"
    /\ UNCHANGED <<args, cap, openCalls, writer, outReleases, capReleases, fish_count,
                   frame_num, contours, idx, boxes, labels, written, reads, readCalls,
                   shown, destroyed, key, exitReason, stdout, stderr, exit_status>>

\* ---- line 89: out.release() ----
ReleaseOut ==
    /\ pc = "release_out"
    /\ outReleases' = outReleases + 1
    /\ writer' = "released"
    /\ pc' = IF args.debug THEN "destroy" ELSE "finish"
    /\ UNCHANGED <<args, cap, openCalls, capReleases, fish_count, frame_num,
                   contours, idx, boxes, labels, written, reads, readCalls, shown,
                   destroyed, key, exitReason, stdout, stderr, exit_status>>

\* ---- lines 90-91: cv2.destroyAllWindows() in debug mode ----
DestroyWindows ==
    /\ pc = "destroy"
    /\ destroyed' = destroyed + 1
    /\ pc' = "finish"
    /\ UNCHANGED <<args, cap, openCalls, writer, capReleases, outReleases, fish_count,
                   frame_num, contours, idx, boxes, labels, written, reads, readCalls,
                   shown, key, exitReason, stdout, stderr, exit_status>>

FinishMutSilent ==
    /\ pc = "finish"
    /\ exit_status' = 0
    /\ pc' = "done"
    /\ UNCHANGED <<args, cap, openCalls, writer, capReleases, outReleases, fish_count,
                   frame_num, contours, idx, boxes, labels, written, reads, readCalls,
                   shown, destroyed, key, exitReason, stdout, stderr>>

\* ---- line 93 and the return from main(): success message, status 0 ----
Finish ==
    /\ pc = "finish"
    /\ stdout' = Append(stdout, DoneMsg(args.out))
    /\ exit_status' = 0
    /\ pc' = "done"
    /\ UNCHANGED <<args, cap, openCalls, writer, capReleases, outReleases, fish_count,
                   frame_num, contours, idx, boxes, labels, written, reads, readCalls,
                   shown, destroyed, key, exitReason, stderr>>

Next ==
    \/ SelectSource
    \/ OpenFailed
    \/ Setup
    \/ ReadOk
    \/ ReadFail
    \/ ContourStep
    \/ WriteFrame
    \/ DebugShow
    \/ ReleaseCap
    \/ ReleaseOut
    \/ DestroyWindows
    \/ Finish

Spec == Init /\ [][Next]_vars

\* The steps the interpreter takes on its own.  cap.read() is a blocking
\* call: it returns when the source delivers a frame or reports its end,
\* and neither is in the program's hands, so ReadOk and ReadFail are not
\* forced.  A behaviour resting at pc = "read" is the program waiting in
\* cap.read(), or a source whose frames never end.
Progress ==
    \/ SelectSource
    \/ OpenFailed
    \/ Setup
    \/ ContourStep
    \/ WriteFrame
    \/ DebugShow
    \/ ReleaseCap
    \/ ReleaseOut
    \/ DestroyWindows
    \/ Finish

FairSpec == Init /\ [][Next]_vars /\ WF_vars(Progress)

\* ======================= properties =======================

Terminated == pc \in {"exited", "fault", "done"}
LoopExited == exitReason # "none"
Qualifying(cs, m) == { i \in 1..Len(cs) : cs[i] >= 2 * m }
Range(q) == { q[i] : i \in 1..Len(q) }

\* C1: when the source cannot be opened, main() prints the error message and
\* exits at once with a non-zero status: no writer, no read, no written
\* frame, no success message.
C1_OpenFailureExits ==
    (cap # NoCap /\ ~cap.opened /\ pc # "check") =>
        /\ pc = "exited"
        /\ exit_status # 0 /\ exit_status # Unset
        /\ stdout = <<ErrorMsg(args.video)>>
        /\ writer = "none"
        /\ readCalls = 0
        /\ written = << >>
        /\ capReleases = 0 /\ outReleases = 0

C1_Witness == pc = "exited" /\ cap.kind = "camera" /\ exit_status = ExitFailure

\* C2 (as stated): on every path by which the program ends, the capture
\* created at startup has been released, also on the early exit taken when
\* the source cannot be opened, and the writer, once created, exactly once.
C2_ReleasedOnEveryPath ==
    (Terminated /\ cap # NoCap) =>
        /\ capReleases = 1
        /\ (writer # "none" => outReleases = 1)

\* C2 (amended): the capture and the writer are each released exactly once
\* when the frame loop has exited; on the early exit taken when the source
\* cannot be opened no release is made at all and no writer exists.
C2_ReleasedAtLoopExit ==
    /\ capReleases <= 1 /\ outReleases <= 1
    /\ (writer = "released") <=> (outReleases = 1)
    /\ pc = "done" => (capReleases = 1 /\ outReleases = 1 /\ cap.opened)
    /\ pc = "exited" => (capReleases = 0 /\ outReleases = 0 /\ writer = "none" /\ ~cap.opened)
    /\ pc = "fault" => (cap = NoCap /\ writer = "none")

C2_Witness == pc = "done" /\ exitReason = "quit" /\ capReleases = 1 /\ outReleases = 1

\* C3: once the loop has exited the number of written frames equals the
\* number of successful reads; every read frame is written exactly once, in
\* reading order, and frame k is written before frame k+1 is read.
C3_WrittenEqualsRead ==
    /\ Len(written) <= reads /\ reads <= Len(written) + 1
    /\ (reads = Len(written) + 1) <=> (pc = "contour")
    /\ \A k \in 1..Len(written) : written[k].src = k
    /\ LoopExited => Len(written) = reads

C3_Witness == pc = "done" /\ exitReason = "eof" /\ reads >= 2 /\ Len(written) = reads

\* C4: a contour gets a box (is counted) iff its area is >= min_area:
\* an area below min_area is never counted, an area equal to it is.
C4_ExactCutoff ==
    /\ \A k \in 1..Len(written) : \A i \in 1..Len(written[k].contours) :
          (i \in Range(written[k].boxes)) <=> (written[k].contours[i] >= 2 * args.min_area)
    /\ pc = "contour" => \A i \in 1..(idx - 1) :
          (i \in Range(boxes)) <=> (contours[i] >= 2 * args.min_area)

C4_Witness ==
    \E k \in 1..Len(written) :
        /\ Len(written[k].contours) = 2
        /\ written[k].contours[1] = 2 * args.min_area - 1
        /\ written[k].contours[2] = 2 * args.min_area
        /\ written[k].boxes = <<2>>

\* C5 (as stated): whenever the source opens, the program runs to completion.
C5_AlwaysCompletes == (cap # NoCap /\ cap.opened) ~> (pc = "done")

\* C5 (amended): whenever the source opens and the frame loop exits (a read
\* fails, or the quit key in debug mode), the program runs to completion:
\* capture and writer released, success message naming the output path
\* printed last, exit status zero.
C5_CompletesOnceLoopExits ==
    /\ [](pc = "done" =>
            /\ capReleases = 1 /\ outReleases = 1
            /\ stdout = <<StartMsg, DoneMsg(args.out)>>
            /\ exit_status = 0)
    /\ (LoopExited ~> (pc = "done"))

C5_Witness == pc = "done" /\ cap.kind = "file" /\ exit_status = 0 /\ stdout[Len(stdout)] = DoneMsg(args.out)

\* C6 (as stated): a numeric --video is converted to an integer and opened as
\* a camera index, any other string is opened unchanged as a path; exactly
\* one open call is made and the selection never fails.
C6_SelectionNeverFails ==
    pc # "select" =>
        /\ pc # "fault"
        /\ Len(openCalls) = 1
        /\ isdigit(args.video) => openCalls[1].kind = "camera"
        /\ ~isdigit(args.video) => openCalls[1] = [kind |-> "file", arg |-> args.video]

\* C7: the frame index starts at 0, grows by exactly 1 on each successful
\* read and never otherwise, never decreases; the k-th written frame carries
\* the number k, and at loop exit the index is the number of written frames.
C7_FrameIndex ==
    /\ [](pc \in {"select", "check", "exited", "fault"} \/ frame_num = reads)
    /\ [](\A k \in 1..Len(written) : written[k].frameText = k)
    /\ [](LoopExited => frame_num = Len(written))
    /\ [][/\ frame_num' >= frame_num
          /\ (frame_num # Unset /\ frame_num' # frame_num) =>
                (frame_num' = frame_num + 1 /\ reads' = reads + 1)
          /\ (frame_num = Unset /\ frame_num' # frame_num) => frame_num' = 0]_vars

C7_Witness == pc = "done" /\ frame_num = 2 /\ Len(written) = 2 /\ written[2].frameText = 2

\* C8: the fish count is reset for every frame: the count overlaid on a
\* frame is the number of that frame's contours with area >= min_area,
\* whatever the earlier frames held, and the labels are 1..count in contour
\* order.
C8_FrameLocalCount ==
    /\ \A k \in 1..Len(written) :
          LET f == written[k] IN
          /\ f.countText = Cardinality(Qualifying(f.contours, args.min_area))
          /\ f.labels = [j \in 1..f.countText |-> j]
          /\ Len(f.boxes) = f.countText
          /\ \A a, b \in 1..Len(f.boxes) : a < b => f.boxes[a] < f.boxes[b]
    /\ (pc = "contour" /\ idx = 1) => fish_count = 0

C8_Witness ==
    /\ Len(written) >= 2
    /\ written[1].countText = 2
    /\ written[2].countText = 1
    /\ written[2].labels = <<1>>

\* C9: a failed read ends the loop at once: nothing is processed or written
\* for it, no further read is attempted, capture and writer are released and
\* the success message is printed, also when the very first read fails.
C9_FailedReadEndsLoop ==
    /\ exitReason = "eof" =>
          /\ pc \in {"release_cap", "release_out", "destroy", "finish", "done"}
          /\ readCalls = reads + 1
          /\ Len(written) = reads
    /\ (pc = "done" /\ exitReason = "eof") =>
          /\ capReleases = 1 /\ outReleases = 1
          /\ stdout = <<StartMsg, DoneMsg(args.out)>>
          /\ exit_status = 0

C9_Witness == pc = "done" /\ exitReason = "eof" /\ reads = 0 /\ written = << >> /\ readCalls = 1

====
